---- MODULE Spec2Model ----
(***************************************************************************)
(* Model of the API gateway (aeiouny/api-gateway).                         *)
(*                                                                         *)
(*   - token validation against a cached JWKS key set                      *)
(*       src/app/auth.py  (module "app")  and  src/auth.py (module "root") *)
(*   - prefix routing and request forwarding      src/app/router.py        *)
(*                                                                         *)
(* Requests are asyncio tasks: a task runs without interruption from one   *)
(* await that suspends to the next, so each action below is the code       *)
(* between two suspension points.                                          *)
(***************************************************************************)
EXTENDS Integers, Sequences, FiniteSets, TLC

VARIABLES
    impl,         \* which auth module serves: "app" (src/app/auth.py) or "root" (src/auth.py)
    cached_keys,  \* app: cached_keys / root: PUBLIC_KEYS; NoKeys or a mapping kid -> key material
    jwks,         \* the key set the issuer currently publishes at JWKS_URL
    now,          \* wall clock read by jwt.decode
    pc,           \* per request task: "idle", "fetching" (suspended in client.get), "done"
    token,        \* per request task: the bearer token being validated
    result,       \* per request task: what validate_token returned or raised
    fetched,      \* per request task: outbound JWKS fetches this call issued
    peers,        \* per request task: the tasks already suspended in a fetch when this one issued its own
    ROUTES,       \* router.ROUTES: the route table in insertion order, <<[prefix, backend], ...>>
    rpc,          \* the proxied request: "idle", "forwarding" (suspended in client.request), "done"
    request,      \* the inbound request being proxied
    backend_url,  \* what get_backend_url returned for it
    outbound,     \* the request forward_request sent to the backend
    response,     \* the response given to the client
    backend_calls, \* outbound backend calls issued for the request
    backend_result, \* what client.request gave: the backend's response, or the exception raised
    redis_time,   \* the Redis server's time, in seconds
    redis,        \* the limiter's counters: per key the count and the time the key expires
    stage,        \* per request task, its place in the endpoint: "idle", "auth", "limit", "handler", "sent"
    endpoint,     \* per request task: the path operation serving it
    caller,       \* per request task: the client the limiter identifies
    answer,       \* per request task: the HTTP answer, with the call's number in its limiter window
    calls,        \* per limiter key: limiter calls since the key's window opened
    accepted,     \* per limiter key: calls accepted since the key's window opened
    opened,       \* per limiter key: the time its present window opened
    payments      \* calls made to create_payment for the request being served

authVars == <<impl, cached_keys, jwks, now, pc, token, result, fetched, peers>>

routerVars == <<ROUTES, rpc, request, backend_url, outbound, response, backend_calls,
               backend_result>>

limiterVars == <<redis_time, redis, stage, endpoint, caller, answer, calls, accepted,
                 opened, payments>>

vars == <<impl, cached_keys, jwks, now, pc, token, result, fetched, peers,
          ROUTES, rpc, request, backend_url, outbound, response, backend_calls,
          backend_result,
          redis_time, redis, stage, endpoint, caller, answer, calls, accepted,
          opened, payments>>

----------------------------------------------------------------------------
(* Bounds *)

NumReq == 2        \* concurrent validate_token calls
MaxTime == 2       \* the clock runs 0..MaxTime
MaxPathLen == 3    \* request paths have at most this many chunks
MaxRoutes == 2     \* route tables have at most this many routes
TickSeconds == 20  \* the Redis clock is observed every TickSeconds seconds
MaxClock == 120    \* ... until it reaches MaxClock
MaxOver == 1       \* a client makes at most this many calls beyond the limit in one window

Reqs == 1..NumReq

----------------------------------------------------------------------------
(* Values *)

None == "None"

\* The cache before the first successful fetch (Python's None), as a value
\* comparable with a key set.
NoKeys == ("None" :> "None")

Kids == {"k1", "k2"}
Materials == {"m1", "m2"}

\* JWKS documents the issuer may publish (whole snapshots, kid -> material).
Snapshots == { ("k1" :> "m1"),
               ("k1" :> "m1" @@ "k2" :> "m2"),
               ("k2" :> "m2") }

ALGORITHMS == {"RS256"}
AUTH0_AUDIENCE == "api"
AUTH0_ISSUER == "issuer"

Algs == {"RS256", "HS256", "none"}
Sigs == Materials \cup {"forged"}
Exps == 1..(MaxTime + 1)
Auds == {AUTH0_AUDIENCE, "other-api"}
Isss == {AUTH0_ISSUER, "other-issuer"}
Subs == {"alice", "bob"}

\* A bearer token: wellformed (three decodable segments), unverified header
\* (kid, alg), the key material whose private half produced the signature,
\* and the embedded claims.
WellFormedTokens ==
    [wellformed : {TRUE}, kid : Kids \cup {None}, alg : Algs, sig : Sigs,
     exp : Exps, aud : Auds, iss : Isss, sub : Subs]

MalformedToken ==
    [wellformed |-> FALSE, kid |-> None, alg |-> "none", sig |-> "forged",
     exp |-> 1, aud |-> "other-api", iss |-> "other-issuer", sub |-> "alice"]

AllTokens == WellFormedTokens \cup {MalformedToken}

\* Tokens a legitimate client holds: RS256, unexpired for the whole run,
\* right audience and issuer; kid and signing key vary.
ClientTokens ==
    { t \in WellFormedTokens :
        /\ t.kid \in Kids /\ t.alg = "RS256" /\ t.sig \in Materials
        /\ t.exp = MaxTime + 1
        /\ t.aud = AUTH0_AUDIENCE /\ t.iss = AUTH0_ISSUER /\ t.sub = "alice" }

NoToken == [wellformed |-> FALSE, kid |-> None, alg |-> "-", sig |-> "-",
            exp |-> 0, aud |-> "-", iss |-> "-", sub |-> "-"]

NoClaims == [sub |-> "-", exp |-> 0, aud |-> "-", iss |-> "-"]

\* The claim set embedded in a token.
Claims(t) == [sub |-> t.sub, exp |-> t.exp, aud |-> t.aud, iss |-> t.iss]

NoResult == [raised |-> "-", status |-> 0, detail |-> "-", kind |-> "-",
             payload |-> NoClaims, at |-> 0]

----------------------------------------------------------------------------
(* python-jose, as validate_token uses it *)

\* jwt.get_unverified_header: JWTError on a token that does not decode,
\* otherwise the header, read without any verification.
get_unverified_header(t) ==
    IF t.wellformed
    THEN [exc |-> "none", kid |-> t.kid, alg |-> t.alg]
    ELSE [exc |-> "JWTError", kid |-> None, alg |-> None]

\* dict.get(kid) on the key set.
get(keys, kid) == IF kid \in DOMAIN keys THEN keys[kid] ELSE None

\* Mutant of signature_verifies: the algorithm is taken from the token, so a
\* token that names "none" carries no signature to check.
signature_verifies_alg_from_token(t, key) ==
    IF t.alg = "none" THEN TRUE ELSE t.sig = key

\* jws.verify under jwt.decode(token, key, algorithms=["RS256"]): the header's
\* alg must be in the list the caller passed, and the signature must verify
\* with the key object built from the JWKS entry.
signature_verifies(t, key) == t.alg \in ALGORITHMS /\ t.sig = key

\* Mutant of jwt_decode: the audience is compared with the issuer setting.
jwt_decode_wrong_audience(t, key, clock) ==
    IF ~signature_verifies(t, key)
    THEN [exc |-> "JWTError", kind |-> "SignatureInvalid", payload |-> NoClaims]
    ELSE IF t.exp < clock
    THEN [exc |-> "ExpiredSignatureError", kind |-> "Expired", payload |-> NoClaims]
    ELSE IF t.aud # AUTH0_ISSUER
    THEN [exc |-> "JWTClaimsError", kind |-> "AudienceMismatch", payload |-> NoClaims]
    ELSE IF t.iss # AUTH0_ISSUER
    THEN [exc |-> "JWTClaimsError", kind |-> "IssuerMismatch", payload |-> NoClaims]
    ELSE [exc |-> "none", kind |-> "OK", payload |-> Claims(t)]

\* Mutant of jwt_decode: the audience is checked before the expiry.
jwt_decode_audience_first(t, key, clock) ==
    IF ~signature_verifies(t, key)
    THEN [exc |-> "JWTError", kind |-> "SignatureInvalid", payload |-> NoClaims]
    ELSE IF t.aud # AUTH0_AUDIENCE
    THEN [exc |-> "JWTClaimsError", kind |-> "AudienceMismatch", payload |-> NoClaims]
    ELSE IF t.exp < clock
    THEN [exc |-> "ExpiredSignatureError", kind |-> "Expired", payload |-> NoClaims]
    ELSE IF t.iss # AUTH0_ISSUER
    THEN [exc |-> "JWTClaimsError", kind |-> "IssuerMismatch", payload |-> NoClaims]
    ELSE [exc |-> "none", kind |-> "OK", payload |-> Claims(t)]

\* Mutant of jwt_decode: the expiry check is left out.
jwt_decode_no_exp(t, key, clock) ==
    IF ~signature_verifies(t, key)
    THEN [exc |-> "JWTError", kind |-> "SignatureInvalid", payload |-> NoClaims]
    ELSE IF t.aud # AUTH0_AUDIENCE
    THEN [exc |-> "JWTClaimsError", kind |-> "AudienceMismatch", payload |-> NoClaims]
    ELSE IF t.iss # AUTH0_ISSUER
    THEN [exc |-> "JWTClaimsError", kind |-> "IssuerMismatch", payload |-> NoClaims]
    ELSE [exc |-> "none", kind |-> "OK", payload |-> Claims(t)]

\* jwt.decode(token, key, algorithms, audience, issuer): signature first, then
\* the claims in python-jose's order exp, aud, iss. exp fails when exp < now.
jwt_decode(t, key, clock) ==
    IF ~signature_verifies(t, key)
    THEN [exc |-> "JWTError", kind |-> "SignatureInvalid", payload |-> NoClaims]
    ELSE IF t.exp < clock
    THEN [exc |-> "ExpiredSignatureError", kind |-> "Expired", payload |-> NoClaims]
    ELSE IF t.aud # AUTH0_AUDIENCE
    THEN [exc |-> "JWTClaimsError", kind |-> "AudienceMismatch", payload |-> NoClaims]
    ELSE IF t.iss # AUTH0_ISSUER
    THEN [exc |-> "JWTClaimsError", kind |-> "IssuerMismatch", payload |-> NoClaims]
    ELSE [exc |-> "none", kind |-> "OK", payload |-> Claims(t)]

----------------------------------------------------------------------------
(* What validate_token returns or raises *)

\* raise HTTPException(status_code, detail)
HTTPException(status, detail, kind, clock) ==
    [raised |-> "HTTPException", status |-> status, detail |-> detail,
     kind |-> kind, payload |-> NoClaims, at |-> clock]

\* An exception that is not an HTTPException leaves validate_token: the
\* framework answers 500 "Internal Server Error".
Unhandled(exc, kind, clock) ==
    [raised |-> exc, status |-> 500, detail |-> "Internal Server Error",
     kind |-> kind, payload |-> NoClaims, at |-> clock]

\* return payload
Returned(payload, clock) ==
    [raised |-> "none", status |-> 200, detail |-> "", kind |-> "OK",
     payload |-> payload, at |-> clock]

\* src/app/auth.py, from the key lookup to the end.
app_after_keys(t, keys, clock) ==
    LET matching_key == get(keys, t.kid) IN
    IF matching_key = None
    THEN HTTPException(401, "Invalid token: key not found", "UnknownKeyId", clock)
    ELSE LET d == jwt_decode(t, matching_key, clock) IN
         IF d.exc = "none"
         THEN Returned(d.payload, clock)
         ELSE HTTPException(401, "Invalid or expired token", d.kind, clock)

\* src/auth.py, from the key lookup to the end. The lookup's HTTPException(401)
\* is raised inside the try and caught by "except Exception", which turns it
\* into a 500 whose detail carries str(e).
root_after_keys(t, keys, clock) ==
    LET jwks_key == get(keys, t.kid) IN
    IF jwks_key = None
    THEN HTTPException(500,
            "Authentication server error: 401: Invalid token: Key ID not recognized.",
            "UnknownKeyId", clock)
    ELSE LET d == jwt_decode(t, jwks_key, clock) IN
         IF d.exc = "none"
         THEN Returned(d.payload, clock)
         ELSE HTTPException(401, "Unauthorized: Invalid or expired token", d.kind, clock)

after_keys(t, keys, clock) ==
    IF impl = "app" THEN app_after_keys(t, keys, clock)
                    ELSE root_after_keys(t, keys, clock)

\* validate_token up to "await get_public_keys()": the result when the call
\* ends before the key lookup, NoResult when it goes on.
app_before_keys(t, clock) ==
    LET header == get_unverified_header(t) IN
    IF header.exc # "none"
    THEN Unhandled("JWTError", "Malformed", clock)
    ELSE IF header.kid = None
    THEN HTTPException(401, "Invalid token: missing key ID", "MissingKeyId", clock)
    ELSE NoResult

root_before_keys(t, clock) ==
    LET unverified_header == get_unverified_header(t) IN
    IF unverified_header.exc # "none"
    THEN HTTPException(401, "Unauthorized: Invalid or expired token", "Malformed", clock)
    ELSE IF unverified_header.kid = None
    THEN HTTPException(500,
            "Authentication server error: 401: Invalid token: Key ID (kid) missing.",
            "MissingKeyId", clock)
    ELSE NoResult

before_keys(t, clock) ==
    IF impl = "app" THEN app_before_keys(t, clock) ELSE root_before_keys(t, clock)

\* The JWKS fetch failed (connection error, or raise_for_status on a non-2xx).
\* app: the httpx exception leaves validate_token. root: get_public_keys
\* raises RuntimeError, which "except Exception" turns into a 500.
fetch_failed(clock) ==
    IF impl = "app"
    THEN Unhandled("HTTPError", "KeyFetchFailed", clock)
    ELSE HTTPException(500,
            "Authentication server error: Auth0 key fetching failed.",
            "KeyFetchFailed", clock)

----------------------------------------------------------------------------
(* Actions: token validation *)

\* Mutant of validate_token: a call that finds the cache filled while another
\* call's fetch is in flight issues a fetch of its own and waits for it.
validate_token_waits_for_fetch(r, t) ==
    /\ pc[r] = "idle"
    /\ token' = [token EXCEPT ![r] = t]
    /\ LET early == before_keys(t, now) IN
       IF early # NoResult
       THEN /\ result' = [result EXCEPT ![r] = early]
            /\ pc' = [pc EXCEPT ![r] = "done"]
            /\ UNCHANGED <<fetched, peers>>
       ELSE IF cached_keys # NoKeys /\ \A q \in Reqs : pc[q] # "fetching"
       THEN /\ result' = [result EXCEPT ![r] = after_keys(t, cached_keys, now)]
            /\ pc' = [pc EXCEPT ![r] = "done"]
            /\ UNCHANGED <<fetched, peers>>
       ELSE /\ pc' = [pc EXCEPT ![r] = "fetching"]
            /\ fetched' = [fetched EXCEPT ![r] = @ + 1]
            /\ peers' = [peers EXCEPT ![r] = {q \in Reqs : pc[q] = "fetching"}]
            /\ UNCHANGED result
    /\ UNCHANGED <<impl, cached_keys, jwks, now>>
    /\ UNCHANGED routerVars
    /\ UNCHANGED limiterVars

\* validate_token is called with token t and runs to its end or to the
\* suspension in client.get(JWKS_URL).
validate_token(r, t) ==
    /\ pc[r] = "idle"
    /\ token' = [token EXCEPT ![r] = t]
    /\ LET early == before_keys(t, now) IN
       IF early # NoResult
       THEN /\ result' = [result EXCEPT ![r] = early]
            /\ pc' = [pc EXCEPT ![r] = "done"]
            /\ UNCHANGED <<fetched, peers>>
       ELSE IF cached_keys # NoKeys
       THEN \* get_public_keys returns the cached set without suspending
            /\ result' = [result EXCEPT ![r] = after_keys(t, cached_keys, now)]
            /\ pc' = [pc EXCEPT ![r] = "done"]
            /\ UNCHANGED <<fetched, peers>>
       ELSE \* cache empty: issue the fetch and suspend
            /\ pc' = [pc EXCEPT ![r] = "fetching"]
            /\ fetched' = [fetched EXCEPT ![r] = @ + 1]
            /\ peers' = [peers EXCEPT ![r] = {q \in Reqs : pc[q] = "fetching"}]
            /\ UNCHANGED result
    /\ UNCHANGED <<impl, cached_keys, jwks, now>>
    /\ UNCHANGED routerVars
    /\ UNCHANGED limiterVars

\* Mutant of get_public_keys_response: only the key the token asks for is
\* stored.
get_public_keys_response_partial(r) ==
    /\ pc[r] = "fetching"
    /\ cached_keys' = [k \in {token[r].kid} \cap DOMAIN jwks |-> jwks[k]]
    /\ result' = [result EXCEPT ![r] = after_keys(token[r], jwks, now)]
    /\ pc' = [pc EXCEPT ![r] = "done"]
    /\ UNCHANGED <<impl, jwks, now, token, fetched, peers>>
    /\ UNCHANGED routerVars
    /\ UNCHANGED limiterVars

\* The JWKS response arrives with status 2xx: the whole key set is stored
\* and validation goes on with it.
get_public_keys_response(r) ==
    /\ pc[r] = "fetching"
    /\ cached_keys' = jwks
    /\ result' = [result EXCEPT ![r] = after_keys(token[r], jwks, now)]
    /\ pc' = [pc EXCEPT ![r] = "done"]
    /\ UNCHANGED <<impl, jwks, now, token, fetched, peers>>
    /\ UNCHANGED routerVars
    /\ UNCHANGED limiterVars

\* Mutant of get_public_keys_error: the failure is remembered as an empty
\* key set.
get_public_keys_error_cached(r) ==
    /\ pc[r] = "fetching"
    /\ cached_keys' = IF cached_keys = NoKeys THEN [k \in {} |-> "m1"] ELSE cached_keys
    /\ result' = [result EXCEPT ![r] = fetch_failed(now)]
    /\ pc' = [pc EXCEPT ![r] = "done"]
    /\ UNCHANGED <<impl, jwks, now, token, fetched, peers>>
    /\ UNCHANGED routerVars
    /\ UNCHANGED limiterVars

\* Mutant of get_public_keys_error: the failed fetch is issued once more.
get_public_keys_error_retry(r) ==
    /\ pc[r] = "fetching"
    /\ IF fetched[r] < 2
       THEN /\ fetched' = [fetched EXCEPT ![r] = @ + 1]
            /\ UNCHANGED <<result, pc>>
       ELSE /\ result' = [result EXCEPT ![r] = fetch_failed(now)]
            /\ pc' = [pc EXCEPT ![r] = "done"]
            /\ UNCHANGED fetched
    /\ UNCHANGED <<impl, cached_keys, jwks, now, token, peers>>
    /\ UNCHANGED routerVars
    /\ UNCHANGED limiterVars

\* The JWKS fetch fails.
get_public_keys_error(r) ==
    /\ pc[r] = "fetching"
    /\ result' = [result EXCEPT ![r] = fetch_failed(now)]
    /\ pc' = [pc EXCEPT ![r] = "done"]
    /\ UNCHANGED <<impl, cached_keys, jwks, now, token, fetched, peers>>
    /\ UNCHANGED routerVars
    /\ UNCHANGED limiterVars

\* The response has been sent; the task ends and the next request is served.
request_done(r) ==
    /\ pc[r] = "done"
    /\ pc' = [pc EXCEPT ![r] = "idle"]
    /\ token' = [token EXCEPT ![r] = NoToken]
    /\ result' = [result EXCEPT ![r] = NoResult]
    /\ fetched' = [fetched EXCEPT ![r] = 0]
    /\ peers' = [peers EXCEPT ![r] = {}]
    /\ UNCHANGED <<impl, cached_keys, jwks, now>>
    /\ UNCHANGED routerVars
    /\ UNCHANGED limiterVars

\* The issuer rotates its keys: another snapshot is published.
Rotate ==
    /\ \E s \in Snapshots : s # jwks /\ jwks' = s
    /\ UNCHANGED <<impl, cached_keys, now, pc, token, result, fetched, peers>>
    /\ UNCHANGED routerVars
    /\ UNCHANGED limiterVars

\* Time passes.
Tick ==
    /\ now < MaxTime
    /\ now' = now + 1
    /\ UNCHANGED <<impl, cached_keys, jwks, pc, token, result, fetched, peers>>
    /\ UNCHANGED routerVars
    /\ UNCHANGED limiterVars

----------------------------------------------------------------------------
(* Router and request forwarder: src/app/router.py *)

\* Paths are sequences of chunks; concatenating the chunks gives the path
\* string ("/users2/x" is <<"/users", "2", "/x">>). No chunk begins like
\* another, so one string starts with another exactly when its chunk
\* sequence starts with the other's.
Chunks == {"/users", "/orders", "2", "/x"}

Paths == UNION { [1..n -> Chunks] : n \in 1..MaxPathLen }

USER_SERVICE_URL == "http://localhost:8001"
ORDER_SERVICE_URL == "http://localhost:8002"
Backends == {USER_SERVICE_URL, ORDER_SERVICE_URL}

\* ROUTES as the repository ships it.
ShippedRoutes ==
    << [prefix |-> <<"/users">>, backend |-> USER_SERVICE_URL],
       [prefix |-> <<"/orders">>, backend |-> ORDER_SERVICE_URL] >>

\* Route tables a deployment may configure: a dict, so prefixes are distinct;
\* insertion order is kept.
PrefixPool == { <<"/users">>, <<"/orders">>, <<"/users", "2">>, <<"/x">> }

RouteTables ==
    UNION { { t \in [1..n -> [prefix : PrefixPool, backend : Backends]] :
                \A i, j \in 1..n : i # j => t[i].prefix # t[j].prefix }
            : n \in 0..MaxRoutes }

\* str.startswith
startswith(path, prefix) ==
    /\ Len(prefix) <= Len(path)
    /\ SubSeq(path, 1, Len(prefix)) = prefix

\* The loop of get_backend_url from position i on: the first route, in the
\* table's iteration order, whose prefix the path starts with; 0 when none.
RECURSIVE first_match(_, _)
first_match(path, i) ==
    IF i > Len(ROUTES) THEN 0
    ELSE IF startswith(path, ROUTES[i].prefix) THEN i
    ELSE first_match(path, i + 1)

\* Mutant of get_backend_url: a route matches only a path equal to its prefix.
get_backend_url_exact(path) ==
    LET hits == {i \in 1..Len(ROUTES) : ROUTES[i].prefix = path} IN
    IF hits = {} THEN None ELSE ROUTES[CHOOSE i \in hits : TRUE].backend

\* get_backend_url(path): the backend of the first matching route, or None.
get_backend_url(path) ==
    LET i == first_match(path, 1) IN
    IF i = 0 THEN None ELSE ROUTES[i].backend

\* The prefix of the route that get_backend_url matched, which the caller
\* hands to forward_request as route_prefix.
route_prefix_of(path) ==
    LET i == first_match(path, 1) IN
    IF i = 0 THEN <<>> ELSE ROUTES[i].prefix

\* Header maps: name -> value.
HeaderMap(names, values) == [n \in names |-> values[n]]

RequestHeaderNames == {"authorization", "content-type", "accept", "cookie"}
InboundValue ==
    [n \in RequestHeaderNames |->
        CASE n = "authorization" -> "Bearer t"
          [] n = "content-type" -> "application/json"
          [] n = "accept" -> "*/*"
          [] n = "cookie" -> "sid=1"]

NoHeaders == HeaderMap({}, InboundValue)

RequestHeaders == { HeaderMap(S, InboundValue) : S \in SUBSET RequestHeaderNames }

Methods == {"GET", "POST", "PUT", "PATCH", "DELETE"}
BodyMethods == {"POST", "PUT", "PATCH"}
AllowedHeaders == {"authorization", "content-type", "accept"}

NoRequest == [method |-> "-", path |-> <<>>, query |-> "", headers |-> NoHeaders,
              body |-> <<>>]

\* Requests that differ in their path only.
RoutingRequests ==
    [method : {"GET"}, path : Paths, query : {""}, headers : {NoHeaders},
     body : {<<>>}]

\* Requests that differ in method, query string, headers and body, on short paths.
ForwardRequests ==
    [method : Methods, path : {p \in Paths : Len(p) <= 2}, query : {"", "a=1"},
     headers : RequestHeaders, body : {<<>>, <<"data">>}]

NoOutbound == [method |-> "-", url |-> <<>>, headers |-> NoHeaders, content |-> <<>>]

\* What the backend answers.
ResponseHeaderNames == {"x-trace", "connection", "transfer-encoding"}
HopByHop == {"connection", "transfer-encoding"}
BackendValue ==
    [n \in ResponseHeaderNames |->
        CASE n = "x-trace" -> "abc"
          [] n = "connection" -> "keep-alive"
          [] n = "transfer-encoding" -> "chunked"]

BackendResponses ==
    [status_code : {200, 404},
     headers : { HeaderMap(S, BackendValue) : S \in SUBSET ResponseHeaderNames },
     content : {<<"{}">>, <<"[1]">>}]

PlainBackendResponses ==
    { b \in BackendResponses : b.status_code = 200 /\ b.content = <<"{}">>
                               /\ DOMAIN b.headers = {"x-trace"} }

\* Exceptions client.request may raise.
TransportErrors == {"ConnectError", "ConnectTimeout", "ReadTimeout", "RemoteProtocolError"}

NoBackendResult == [exc |-> "-", status_code |-> 0, headers |-> NoHeaders, content |-> <<>>]

\* client.request returned response b.
Answered(b) ==
    [exc |-> "none", status_code |-> b.status_code, headers |-> b.headers,
     content |-> b.content]

\* client.request raised exc.
Raised(exc) == [exc |-> exc, status_code |-> 0, headers |-> NoHeaders, content |-> <<>>]

NoResponse == [class |-> "-", status_code |-> 0, headers |-> NoHeaders, content |-> <<>>]

\* Response(content=..., status_code=..., headers=...)
Response(content, status_code, headers) ==
    [class |-> "Response", status_code |-> status_code, headers |-> headers,
     content |-> content]

\* JSONResponse(status_code=..., content={"error": ...})
JSONResponse(status_code, error) ==
    [class |-> "JSONResponse", status_code |-> status_code,
     headers |-> [n \in {"content-type"} |-> "application/json"],
     content |-> error]

\* Mutant of build_outbound: an empty remainder is not replaced by "/".
build_outbound_empty_path(req, backend, route_prefix) ==
    LET stripped == SubSeq(req.path, Len(route_prefix) + 1, Len(req.path))
        base == <<backend>> \o stripped
        full_backend_url == IF req.query # "" THEN base \o <<"?", req.query>> ELSE base
        body == IF req.method \in BodyMethods THEN req.body ELSE <<>>
        names == {h \in AllowedHeaders : h \in DOMAIN req.headers}
    IN  [method |-> req.method, url |-> full_backend_url,
         headers |-> [h \in names |-> req.headers[h]], content |-> body]

\* Mutant of build_outbound: the body is forwarded whatever the method.
build_outbound_any_method_body(req, backend, route_prefix) ==
    LET stripped == SubSeq(req.path, Len(route_prefix) + 1, Len(req.path))
        backend_path == IF stripped = <<>> THEN <<"/">> ELSE stripped
        base == <<backend>> \o backend_path
        full_backend_url == IF req.query # "" THEN base \o <<"?", req.query>> ELSE base
        names == {h \in AllowedHeaders : h \in DOMAIN req.headers}
    IN  [method |-> req.method, url |-> full_backend_url,
         headers |-> [h \in names |-> req.headers[h]], content |-> req.body]

\* Mutant of build_outbound: every inbound header is copied.
build_outbound_all_headers(req, backend, route_prefix) ==
    LET stripped == SubSeq(req.path, Len(route_prefix) + 1, Len(req.path))
        backend_path == IF stripped = <<>> THEN <<"/">> ELSE stripped
        base == <<backend>> \o backend_path
        full_backend_url == IF req.query # "" THEN base \o <<"?", req.query>> ELSE base
        body == IF req.method \in BodyMethods THEN req.body ELSE <<>>
    IN  [method |-> req.method, url |-> full_backend_url,
         headers |-> req.headers, content |-> body]

\* The outbound request forward_request builds (lines 33-57).
build_outbound(req, backend, route_prefix) ==
    LET stripped == SubSeq(req.path, Len(route_prefix) + 1, Len(req.path))
        backend_path == IF stripped = <<>> THEN <<"/">> ELSE stripped
        base == <<backend>> \o backend_path
        full_backend_url == IF req.query # "" THEN base \o <<"?", req.query>> ELSE base
        body == IF req.method \in BodyMethods THEN req.body ELSE <<>>
        names == {h \in AllowedHeaders : h \in DOMAIN req.headers}
    IN  [method |-> req.method, url |-> full_backend_url,
         headers |-> [h \in names |-> req.headers[h]], content |-> body]

\* Mutant of relay: the backend's headers are not passed on.
relay_without_headers(b) == Response(b.content, b.status_code, NoHeaders)

\* The client's response for a backend response (lines 70-74): the backend's
\* content, status code and all of its headers.
relay(b) == Response(b.content, b.status_code, b.headers)

\* Mutant of transport_failure: only connection failures are caught; any
\* other exception leaves forward_request and no response is made.
transport_failure_uncaught(exc) ==
    IF exc \in {"ConnectError", "ConnectTimeout"}
    THEN JSONResponse(503, <<"Backend service unavailable">>)
    ELSE NoResponse

\* The client's response when client.request raises (lines 76-85).
transport_failure(exc) ==
    IF exc \in {"ConnectError", "ConnectTimeout"}
    THEN JSONResponse(503, <<"Backend service unavailable">>)
    ELSE JSONResponse(500, <<"Gateway error: ", exc>>)

\* A request reaches the proxy: the route is resolved; with no route the
\* gateway answers 404, otherwise forward_request builds the outbound request,
\* sends it and suspends in client.request.
proxy(req) ==
    /\ rpc = "idle"
    /\ request' = req
    /\ backend_url' = get_backend_url(req.path)
    /\ IF get_backend_url(req.path) = None
       THEN /\ response' = JSONResponse(404, <<"Not Found">>)
            /\ rpc' = "done"
            /\ UNCHANGED <<outbound, backend_calls>>
       ELSE /\ outbound' = build_outbound(req, get_backend_url(req.path),
                                          route_prefix_of(req.path))
            /\ backend_calls' = backend_calls + 1
            /\ rpc' = "forwarding"
            /\ UNCHANGED response
    /\ UNCHANGED <<ROUTES, backend_result>>
    /\ UNCHANGED authVars
    /\ UNCHANGED limiterVars

\* The backend answers: forward_request relays the answer.
forward_request_response(b) ==
    /\ rpc = "forwarding"
    /\ backend_result' = Answered(b)
    /\ response' = relay(b)
    /\ rpc' = "done"
    /\ UNCHANGED <<ROUTES, request, backend_url, outbound, backend_calls>>
    /\ UNCHANGED authVars
    /\ UNCHANGED limiterVars

\* client.request raises: forward_request answers with a gateway error.
forward_request_error(exc) ==
    /\ rpc = "forwarding"
    /\ backend_result' = Raised(exc)
    /\ response' = transport_failure(exc)
    /\ rpc' = "done"
    /\ UNCHANGED <<ROUTES, request, backend_url, outbound, backend_calls>>
    /\ UNCHANGED authVars
    /\ UNCHANGED limiterVars

\* The response has been sent; the next request is served.
proxy_done ==
    /\ rpc = "done"
    /\ rpc' = "idle"
    /\ request' = NoRequest
    /\ backend_url' = None
    /\ outbound' = NoOutbound
    /\ response' = NoResponse
    /\ backend_calls' = 0
    /\ backend_result' = NoBackendResult
    /\ UNCHANGED ROUTES
    /\ UNCHANGED authVars
    /\ UNCHANGED limiterVars

----------------------------------------------------------------------------
(* Rate limiting: Depends(RateLimiter(times, seconds)) in src/app/main.py and
   src/main.py. The dependency runs fastapi-limiter's script in Redis; Redis
   runs a script as one step. *)

Clients == {"c1"}

ROOT == "/"
ME == "/api/v1/me"
SECURE == "/secure"
PAYMENTS == "/api/payments/create"
HEALTH == "/health"
LimitedEndpoints == {ROOT, SECURE, PAYMENTS}

\* RateLimiter(times=..., seconds=...) of each endpoint.
times(ep) == IF ep = ROOT THEN 5 ELSE IF ep = SECURE THEN 10 ELSE 20
seconds(ep) == 60

\* The limiter's key: the identifier (client address and path).
LimiterKeys == Clients \X LimitedEndpoints

NoEntry == [count |-> 0, expires |-> 0]

\* GET key: the count of a key that has not expired, else 0.
current_count(entry, t) ==
    IF entry.count > 0 /\ t < entry.expires THEN entry.count ELSE 0

\* Mutant of limiter_script: the limit test is off by one.
limiter_script_off_by_one(entry, t, limit, period) ==
    LET current == current_count(entry, t) IN
    IF current > 0
    THEN IF current > limit
         THEN [entry |-> entry, pexpire |-> entry.expires - t]
         ELSE [entry |-> [count |-> current + 1, expires |-> entry.expires],
               pexpire |-> 0]
    ELSE [entry |-> [count |-> 1, expires |-> t + period], pexpire |-> 0]

\* Mutant of limiter_script: an accepted call's increment is lost when the
\* count is one below the limit.
limiter_script_lost_update(entry, t, limit, period) ==
    LET current == current_count(entry, t) IN
    IF current > 0
    THEN IF current + 1 > limit
         THEN [entry |-> entry, pexpire |-> entry.expires - t]
         ELSE [entry |-> [count |-> IF current + 1 = limit THEN current
                                                          ELSE current + 1,
                          expires |-> entry.expires],
               pexpire |-> 0]
    ELSE [entry |-> [count |-> 1, expires |-> t + period], pexpire |-> 0]

\* The limiter's script at time t: the first call sets the key to 1 with the
\* period as its time to live; a later call increments it while the count is
\* below the limit and is otherwise answered the key's remaining time to live.
\* pexpire = 0 accepts the call.
limiter_script(entry, t, limit, period) ==
    LET current == current_count(entry, t) IN
    IF current > 0
    THEN IF current + 1 > limit
         THEN [entry |-> entry, pexpire |-> entry.expires - t]
         ELSE [entry |-> [count |-> current + 1, expires |-> entry.expires],
               pexpire |-> 0]
    ELSE [entry |-> [count |-> 1, expires |-> t + period], pexpire |-> 0]

\* An answer: the HTTP status and, when the limiter ran, the call's number in
\* its window, the time that window opened and the time of the call.
NoAnswer == [status |-> 0, callno |-> 0, opened |-> 0, at |-> 0]

Rejected(status) == [status |-> status, callno |-> 0, opened |-> 0, at |-> 0]

\* Calls made on key k in its present window.
calls_in_window(k) == IF current_count(redis[k], redis_time) > 0 THEN calls[k] ELSE 0

\* GET / arrives from client c: its only dependency is the rate limiter.
get_root(r, c) ==
    /\ stage[r] = "idle"
    /\ calls_in_window(<<c, ROOT>>) < times(ROOT) + MaxOver
    /\ stage' = [stage EXCEPT ![r] = "limit"]
    /\ endpoint' = [endpoint EXCEPT ![r] = ROOT]
    /\ caller' = [caller EXCEPT ![r] = c]
    /\ UNCHANGED <<redis_time, redis, answer, calls, accepted, opened, payments>>
    /\ UNCHANGED authVars
    /\ UNCHANGED routerVars

\* Mutant of get_health: a caller that has used up the budget of GET / is
\* refused.
get_health_limited(r) ==
    /\ stage[r] = "idle"
    /\ stage' = [stage EXCEPT ![r] = "sent"]
    /\ endpoint' = [endpoint EXCEPT ![r] = HEALTH]
    /\ answer' = [answer EXCEPT ![r] =
                     IF \E c \in Clients :
                           current_count(redis[<<c, ROOT>>], redis_time) >= times(ROOT)
                     THEN Rejected(429) ELSE Rejected(200)]
    /\ UNCHANGED <<redis_time, redis, caller, calls, accepted, opened, payments>>
    /\ UNCHANGED authVars
    /\ UNCHANGED routerVars

\* GET /health arrives: no dependency is declared and the body returns the
\* status without awaiting anything.
get_health(r) ==
    /\ stage[r] = "idle"
    /\ stage' = [stage EXCEPT ![r] = "sent"]
    /\ endpoint' = [endpoint EXCEPT ![r] = HEALTH]
    /\ answer' = [answer EXCEPT ![r] = Rejected(200)]
    /\ UNCHANGED <<redis_time, redis, caller, calls, accepted, opened, payments>>
    /\ UNCHANGED authVars
    /\ UNCHANGED routerVars

\* POST /api/payments/create arrives from client c: its dependencies are
\* validate_token, then the rate limiter, in the order of the parameters.
create_payment_endpoint(r, c) ==
    /\ impl = "app"
    /\ stage[r] = "idle"
    /\ pc[r] = "idle"
    /\ calls_in_window(<<c, PAYMENTS>>) < times(PAYMENTS) + MaxOver
    /\ stage' = [stage EXCEPT ![r] = "auth"]
    /\ endpoint' = [endpoint EXCEPT ![r] = PAYMENTS]
    /\ caller' = [caller EXCEPT ![r] = c]
    /\ UNCHANGED <<redis_time, redis, answer, calls, accepted, opened, payments>>
    /\ UNCHANGED authVars
    /\ UNCHANGED routerVars

\* GET /api/v1/me arrives. app.main declares Depends(validate_token); the
\* get_user of src/main.py declares no dependency and its body runs at once.
get_user(r) ==
    /\ stage[r] = "idle"
    /\ pc[r] = "idle"
    /\ stage' = [stage EXCEPT ![r] = IF impl = "app" THEN "auth" ELSE "handler"]
    /\ endpoint' = [endpoint EXCEPT ![r] = ME]
    /\ UNCHANGED <<redis_time, redis, caller, answer, calls, accepted, opened, payments>>
    /\ UNCHANGED authVars
    /\ UNCHANGED routerVars

\* GET /secure of src/main.py arrives from client c carrying token t, or no
\* Authorization header. Its dependencies are token_scheme (HTTPBearer, which
\* only reads the header and refuses a request without one), then the rate
\* limiter; validate_token is not among them.
get_secure_data(r, c, t) ==
    /\ impl = "root"
    /\ stage[r] = "idle"
    /\ pc[r] = "idle"
    /\ calls_in_window(<<c, SECURE>>) < times(SECURE) + MaxOver
    /\ endpoint' = [endpoint EXCEPT ![r] = SECURE]
    /\ caller' = [caller EXCEPT ![r] = c]
    /\ token' = [token EXCEPT ![r] = t]
    /\ IF t = NoToken
       THEN /\ stage' = [stage EXCEPT ![r] = "sent"]
            /\ answer' = [answer EXCEPT ![r] = Rejected(403)]
       ELSE /\ stage' = [stage EXCEPT ![r] = "limit"]
            /\ UNCHANGED answer
    /\ UNCHANGED <<redis_time, redis, calls, accepted, opened, payments>>
    /\ UNCHANGED <<impl, cached_keys, jwks, now, pc, result, fetched, peers>>
    /\ UNCHANGED routerVars

\* The request to an endpoint of app.main has no Authorization header: bearer
\* (HTTPBearer) refuses it before validate_token's body runs.
bearer(r) ==
    /\ stage[r] = "auth"
    /\ pc[r] = "idle"
    /\ stage' = [stage EXCEPT ![r] = "sent"]
    /\ answer' = [answer EXCEPT ![r] = Rejected(403)]
    /\ UNCHANGED <<redis_time, redis, endpoint, caller, calls, accepted, opened, payments>>
    /\ UNCHANGED authVars
    /\ UNCHANGED routerVars

\* Mutant of validate_token_dependency: the next dependency runs whatever
\* validate_token did.
validate_token_dependency_ignored(r) ==
    /\ stage[r] = "auth"
    /\ pc[r] = "done"
    /\ stage' = [stage EXCEPT ![r] = IF endpoint[r] = PAYMENTS THEN "limit"
                                                               ELSE "handler"]
    /\ UNCHANGED answer
    /\ UNCHANGED <<redis_time, redis, endpoint, caller, calls, accepted, opened, payments>>
    /\ UNCHANGED authVars
    /\ UNCHANGED routerVars

\* The validate_token dependency has ended: what it raised is the answer,
\* otherwise the next dependency, the rate limiter, runs.
validate_token_dependency(r) ==
    /\ stage[r] = "auth"
    /\ pc[r] = "done"
    /\ IF result[r].raised = "none"
       THEN /\ stage' = [stage EXCEPT ![r] = IF endpoint[r] = PAYMENTS THEN "limit"
                                                                      ELSE "handler"]
            /\ UNCHANGED answer
       ELSE /\ stage' = [stage EXCEPT ![r] = "sent"]
            /\ answer' = [answer EXCEPT ![r] = Rejected(result[r].status)]
    /\ UNCHANGED <<redis_time, redis, endpoint, caller, calls, accepted, opened, payments>>
    /\ UNCHANGED authVars
    /\ UNCHANGED routerVars

\* Mutant of rate_limiter: a call over the limit is counted but not refused.
rate_limiter_never_raises(r) ==
    /\ stage[r] = "limit"
    /\ LET k == <<caller[r], endpoint[r]>>
           opens == current_count(redis[k], redis_time) = 0
           out == limiter_script(redis[k], redis_time, times(endpoint[r]), seconds(endpoint[r]))
           n == IF opens THEN 1 ELSE calls[k] + 1
           w == IF opens THEN redis_time ELSE opened[k]
       IN  /\ redis' = [redis EXCEPT ![k] = out.entry]
           /\ calls' = [calls EXCEPT ![k] = n]
           /\ opened' = [opened EXCEPT ![k] = w]
           /\ accepted' = [accepted EXCEPT ![k] =
                             (IF opens THEN 0 ELSE @) + (IF out.pexpire = 0 THEN 1 ELSE 0)]
           /\ answer' = [answer EXCEPT ![r] = [status |-> 0, callno |-> n,
                                               opened |-> w, at |-> redis_time]]
           /\ stage' = [stage EXCEPT ![r] = "handler"]
    /\ UNCHANGED <<redis_time, endpoint, caller, payments>>
    /\ UNCHANGED authVars
    /\ UNCHANGED routerVars

\* The rate limiter dependency: Redis runs the script for the request's key;
\* a non-zero answer raises HTTPException(429), otherwise the handler runs.
rate_limiter(r) ==
    /\ stage[r] = "limit"
    /\ LET k == <<caller[r], endpoint[r]>>
           opens == current_count(redis[k], redis_time) = 0
           out == limiter_script(redis[k], redis_time, times(endpoint[r]), seconds(endpoint[r]))
           n == IF opens THEN 1 ELSE calls[k] + 1
           w == IF opens THEN redis_time ELSE opened[k]
       IN  /\ redis' = [redis EXCEPT ![k] = out.entry]
           /\ calls' = [calls EXCEPT ![k] = n]
           /\ opened' = [opened EXCEPT ![k] = w]
           /\ accepted' = [accepted EXCEPT ![k] =
                             (IF opens THEN 0 ELSE @) + (IF out.pexpire = 0 THEN 1 ELSE 0)]
           /\ IF out.pexpire # 0
              THEN /\ answer' = [answer EXCEPT ![r] = [status |-> 429, callno |-> n,
                                                       opened |-> w, at |-> redis_time]]
                   /\ stage' = [stage EXCEPT ![r] = "sent"]
              ELSE /\ answer' = [answer EXCEPT ![r] = [status |-> 0, callno |-> n,
                                                       opened |-> w, at |-> redis_time]]
                   /\ stage' = [stage EXCEPT ![r] = "handler"]
    /\ UNCHANGED <<redis_time, endpoint, caller, payments>>
    /\ UNCHANGED authVars
    /\ UNCHANGED routerVars

\* The body of get_root: return {"message": "Main Page!"}.
get_root_handler(r) ==
    /\ stage[r] = "handler"
    /\ endpoint[r] = ROOT
    /\ answer' = [answer EXCEPT ![r].status = 200]
    /\ stage' = [stage EXCEPT ![r] = "sent"]
    /\ UNCHANGED <<redis_time, redis, endpoint, caller, calls, accepted, opened, payments>>
    /\ UNCHANGED authVars
    /\ UNCHANGED routerVars

\* The body of get_user: the user's payload.
get_user_handler(r) ==
    /\ stage[r] = "handler"
    /\ endpoint[r] = ME
    /\ answer' = [answer EXCEPT ![r].status = 200]
    /\ stage' = [stage EXCEPT ![r] = "sent"]
    /\ UNCHANGED <<redis_time, redis, endpoint, caller, calls, accepted, opened, payments>>
    /\ UNCHANGED authVars
    /\ UNCHANGED routerVars

\* The body of get_secure_data: the secure data and the token as received.
get_secure_data_handler(r) ==
    /\ stage[r] = "handler"
    /\ endpoint[r] = SECURE
    /\ answer' = [answer EXCEPT ![r].status = 200]
    /\ stage' = [stage EXCEPT ![r] = "sent"]
    /\ UNCHANGED <<redis_time, redis, endpoint, caller, calls, accepted, opened, payments>>
    /\ UNCHANGED authVars
    /\ UNCHANGED routerVars

\* The body of create_payment_endpoint: create_payment is called; it returns
\* the payment intent (200) or raises HTTPException (400 on a Stripe error,
\* 500 when no secret key is configured).
create_payment(r, status) ==
    /\ stage[r] = "handler"
    /\ endpoint[r] = PAYMENTS
    /\ payments' = payments + 1
    /\ answer' = [answer EXCEPT ![r].status = status]
    /\ stage' = [stage EXCEPT ![r] = "sent"]
    /\ UNCHANGED <<redis_time, redis, endpoint, caller, calls, accepted, opened>>
    /\ UNCHANGED authVars
    /\ UNCHANGED routerVars

\* The answer has been sent; the task ends and serves the next request.
response_sent(r) ==
    /\ stage[r] = "sent"
    /\ stage' = [stage EXCEPT ![r] = "idle"]
    /\ endpoint' = [endpoint EXCEPT ![r] = "-"]
    /\ caller' = [caller EXCEPT ![r] = "-"]
    /\ answer' = [answer EXCEPT ![r] = NoAnswer]
    /\ payments' = 0
    /\ pc' = [pc EXCEPT ![r] = "idle"]
    /\ token' = [token EXCEPT ![r] = NoToken]
    /\ result' = [result EXCEPT ![r] = NoResult]
    /\ fetched' = [fetched EXCEPT ![r] = 0]
    /\ peers' = [peers EXCEPT ![r] = {}]
    /\ UNCHANGED <<redis_time, redis, calls, accepted, opened>>
    /\ UNCHANGED <<impl, cached_keys, jwks, now>>
    /\ UNCHANGED routerVars

\* Time passes at the Redis server.
RedisTick ==
    /\ redis_time < MaxClock
    /\ redis_time' = redis_time + TickSeconds
    /\ UNCHANGED <<redis, stage, endpoint, caller, answer, calls, accepted, opened,
                   payments>>
    /\ UNCHANGED authVars
    /\ UNCHANGED routerVars

----------------------------------------------------------------------------
(* Specifications *)

\* After import: the cache is None, no request is being served.
AuthInit ==
    /\ impl \in {"app", "root"}
    /\ cached_keys = NoKeys
    /\ jwks \in Snapshots
    /\ now = 0
    /\ pc = [r \in Reqs |-> "idle"]
    /\ token = [r \in Reqs |-> NoToken]
    /\ result = [r \in Reqs |-> NoResult]
    /\ fetched = [r \in Reqs |-> 0]
    /\ peers = [r \in Reqs |-> {}]

\* The router after import, with route table t.
RouterInit(t) ==
    /\ ROUTES = t
    /\ rpc = "idle"
    /\ request = NoRequest
    /\ backend_url = None
    /\ outbound = NoOutbound
    /\ response = NoResponse
    /\ backend_calls = 0
    /\ backend_result = NoBackendResult

\* The limiter after startup: Redis holds no counter.
LimiterInit ==
    /\ redis_time = 0
    /\ redis = [k \in LimiterKeys |-> NoEntry]
    /\ stage = [r \in Reqs |-> "idle"]
    /\ endpoint = [r \in Reqs |-> "-"]
    /\ caller = [r \in Reqs |-> "-"]
    /\ answer = [r \in Reqs |-> NoAnswer]
    /\ calls = [k \in LimiterKeys |-> 0]
    /\ accepted = [k \in LimiterKeys |-> 0]
    /\ opened = [k \in LimiterKeys |-> 0]
    /\ payments = 0

Init == AuthInit /\ RouterInit(ShippedRoutes) /\ LimiterInit

\* Concurrent validations of client tokens, each task serving one request.
Next ==
    \/ \E r \in Reqs : \E t \in ClientTokens : validate_token(r, t)
    \/ \E r \in Reqs : get_public_keys_response(r)
    \/ \E r \in Reqs : get_public_keys_error(r)
    \/ Rotate

Spec == Init /\ [][Next]_vars

\* One request after another, with any token, while time passes.
NextValidate ==
    \/ pc[1] = "idle" /\ \E t \in AllTokens : validate_token(1, t)
    \/ get_public_keys_response(1)
    \/ get_public_keys_error(1)
    \/ request_done(1)
    \/ Rotate
    \/ Tick

SpecValidate == Init /\ [][NextValidate]_vars

\* Concurrent validations of client tokens by tasks that serve one request
\* after another.
NextServe ==
    \/ \E r \in Reqs : pc[r] = "idle" /\ \E t \in ClientTokens : validate_token(r, t)
    \/ \E r \in Reqs : get_public_keys_response(r)
    \/ \E r \in Reqs : get_public_keys_error(r)
    \/ \E r \in Reqs : request_done(r)
    \/ Rotate

SpecServe == Init /\ [][NextServe]_vars

\* Route resolution: any configured route table, requests on any path.
InitRouter ==
    /\ AuthInit /\ impl = "app" /\ jwks = ("k1" :> "m1")
    /\ \E t \in RouteTables : RouterInit(t)
    /\ LimiterInit

NextRouter ==
    \/ rpc = "idle" /\ \E req \in RoutingRequests : proxy(req)
    \/ \E b \in PlainBackendResponses : forward_request_response(b)
    \/ \E exc \in {"ConnectError"} : forward_request_error(exc)
    \/ proxy_done

SpecRouter == InitRouter /\ [][NextRouter]_vars

\* Forwarding with the shipped route table: any method, headers, query and
\* body; any backend answer or transport failure.
InitForward ==
    /\ AuthInit /\ impl = "app" /\ jwks = ("k1" :> "m1")
    /\ RouterInit(ShippedRoutes)
    /\ LimiterInit

NextForward ==
    \/ rpc = "idle" /\ \E req \in ForwardRequests : proxy(req)
    \/ rpc = "forwarding" /\ \E b \in BackendResponses : forward_request_response(b)
    \/ \E exc \in TransportErrors : forward_request_error(exc)
    \/ proxy_done

SpecForward == InitForward /\ [][NextForward]_vars

\* Rate limiting of GET /: concurrent requests of one client while time passes.
InitLimiter ==
    /\ AuthInit /\ impl = "app" /\ jwks = ("k1" :> "m1")
    /\ RouterInit(ShippedRoutes)
    /\ LimiterInit

NextLimiter ==
    \/ \E r \in Reqs : \E c \in Clients : get_root(r, c)
    \/ \E r \in Reqs : get_health(r)
    \/ \E r \in Reqs : rate_limiter(r)
    \/ \E r \in Reqs : get_root_handler(r)
    \/ \E r \in Reqs : response_sent(r)
    \/ RedisTick

SpecLimiter == InitLimiter /\ [][NextLimiter]_vars

\* The protected endpoints of app.main and of src/main.py: one request after
\* another through its dependencies and its handler.
InitPipeline ==
    /\ AuthInit /\ jwks = ("k1" :> "m1")
    /\ RouterInit(ShippedRoutes)
    /\ LimiterInit

PipelineTokens ==
    { t \in AllTokens :
        \/ t \in ClientTokens
        \/ ~t.wellformed
        \/ /\ t.wellformed /\ t.kid = None /\ t.alg = "RS256" /\ t.sig = "m1"
           /\ t.exp = MaxTime + 1 /\ t.aud = AUTH0_AUDIENCE /\ t.iss = AUTH0_ISSUER
           /\ t.sub = "alice" }

NextPipeline ==
    \/ \E c \in Clients : create_payment_endpoint(1, c)
    \/ get_user(1)
    \/ stage[1] = "idle" /\ \E c \in Clients : \E t \in PipelineTokens \cup {NoToken} :
           get_secure_data(1, c, t)
    \/ bearer(1)
    \/ stage[1] = "auth" /\ \E t \in PipelineTokens : validate_token(1, t)
    \/ get_public_keys_response(1)
    \/ get_public_keys_error(1)
    \/ validate_token_dependency(1)
    \/ rate_limiter(1)
    \/ get_user_handler(1)
    \/ get_secure_data_handler(1)
    \/ \E status \in {200, 400, 500} : create_payment(1, status)
    \/ response_sent(1)
    \/ RedisTick

SpecPipeline == InitPipeline /\ [][NextPipeline]_vars

\* Every stage of the gateway with the shipped configuration: the payments
\* endpoint of app.main (validate_token, rate limiter, create_payment) and the
\* proxy (route resolution, forward_request), one request after another.
InitStages ==
    /\ AuthInit /\ impl = "app" /\ jwks = ("k1" :> "m1")
    /\ RouterInit(ShippedRoutes)
    /\ LimiterInit

StageRequests ==
    { req \in ForwardRequests :
        /\ req.method = "GET" /\ req.query = "" /\ req.headers = NoHeaders
        /\ req.body = <<>> /\ req.path \in {<<"/users">>, <<"/x">>} }

NextStages ==
    \/ \E c \in Clients : create_payment_endpoint(1, c)
    \/ bearer(1)
    \/ stage[1] = "auth" /\ \E t \in PipelineTokens : validate_token(1, t)
    \/ get_public_keys_response(1)
    \/ get_public_keys_error(1)
    \/ validate_token_dependency(1)
    \/ rate_limiter(1)
    \/ \E status \in {200, 400, 500} : create_payment(1, status)
    \/ response_sent(1)
    \/ rpc = "idle" /\ \E req \in StageRequests : proxy(req)
    \/ \E b \in PlainBackendResponses : forward_request_response(b)
    \/ \E exc \in TransportErrors : forward_request_error(exc)
    \/ proxy_done

SpecStages == InitStages /\ [][NextStages]_vars

----------------------------------------------------------------------------
(* Claims about the key cache and token validation *)

Done(r) == pc[r] = "done"

\* The ways the spec lets a token be rejected.
AuthErrorKinds == {"MissingKeyId", "UnknownKeyId", "Malformed", "SignatureInvalid",
                   "Expired", "AudienceMismatch", "IssuerMismatch"}

\* The rejections jwt.decode itself produces.
DecodeKinds == {"SignatureInvalid", "Expired", "AudienceMismatch", "IssuerMismatch"}

\* The token's kid selects a key of the cached set, and that key verifies the
\* token's signature under RS256.
SignedWithCachedKey(t) ==
    /\ t.wellformed
    /\ t.alg = "RS256"
    /\ cached_keys # NoKeys
    /\ t.kid \in DOMAIN cached_keys
    /\ t.sig = cached_keys[t.kid]

\* C1 (as claimed): single-flight refresh. While one validate_token call is
\* suspended in the JWKS fetch no other call has a fetch of its own in flight,
\* so concurrent misses on the empty cache issue one fetch in total.
C1_SingleFlight ==
    \A r \in Reqs : pc[r] = "fetching" =>
        \A q \in Reqs \ {r} : pc[q] # "fetching"

\* C2 (as claimed): consistent outcome under concurrent miss. Two validations
\* of the same token that missed the empty cache concurrently end alike: both
\* return the claims or both fail, with the same status.
C2_ConsistentOutcome ==
    \A r, q \in Reqs :
        (/\ Done(r) /\ Done(q)
         /\ q \in peers[r]
         /\ token[r] = token[q])
        => /\ result[r].status = result[q].status
           /\ result[r].raised = "none" <=> result[q].raised = "none"

\* C3 (as claimed): refresh on lookup miss. The unknown-key rejection is given
\* only by a call that attempted a JWKS fetch first.
C3_RefreshBeforeUnknownKey ==
    \A r \in Reqs :
        (Done(r) /\ result[r].kind = "UnknownKeyId") => fetched[r] >= 1

\* C4 (as claimed): every authentication failure yields HTTP 401. A token
\* rejected for a missing or unknown kid, as malformed, for its signature,
\* expiry, audience or issuer ends validate_token with HTTPException(401).
C4_AuthFailureIs401 ==
    \A r \in Reqs :
        (Done(r) /\ result[r].kind \in AuthErrorKinds)
        => result[r].status = 401 /\ result[r].raised = "HTTPException"

\* C5: claims are released only after signature verification. A call that
\* returned a claim set was given a token whose header names RS256 and whose
\* signature verifies with the cached key that the token's kid selects.
C5_ClaimsOnlyAfterVerification ==
    \A r \in Reqs :
        (Done(r) /\ result[r].raised = "none") => SignedWithCachedKey(token[r])

C5_Witness ==
    \E r \in Reqs : Done(r) /\ result[r].raised = "none" /\ result[r].status = 200

\* C6: a token signed with key material that was in the cache when the call
\* was made (no fetch was needed), with exp in the future and the expected
\* audience and issuer, is answered with exactly its embedded claims.
C6_ValidTokenReturnsClaims ==
    \A r \in Reqs :
        (/\ Done(r)
         /\ fetched[r] = 0
         /\ SignedWithCachedKey(token[r])
         /\ token[r].exp > result[r].at
         /\ token[r].aud = AUTH0_AUDIENCE
         /\ token[r].iss = AUTH0_ISSUER)
        => /\ result[r].raised = "none"
           /\ result[r].payload.sub = token[r].sub
           /\ result[r].payload.exp = token[r].exp
           /\ result[r].payload.aud = token[r].aud
           /\ result[r].payload.iss = token[r].iss

C6_Witness ==
    \E r \in Reqs :
        /\ Done(r)
        /\ fetched[r] = 0
        /\ SignedWithCachedKey(token[r])
        /\ token[r].exp > result[r].at
        /\ token[r].aud = AUTH0_AUDIENCE
        /\ token[r].iss = AUTH0_ISSUER
        /\ token[r].sub = "bob"
        /\ result[r].payload.sub = "bob"

\* C7 (as claimed): a token whose exp is in the past fails with the Expired
\* error kind whether or not its signature is valid. Stated for the tokens
\* that reach jwt.decode (header readable, key found).
C7_ExpiredWhateverSignature ==
    \A r \in Reqs :
        (/\ Done(r)
         /\ token[r].exp < result[r].at
         /\ result[r].kind \in DecodeKinds \cup {"OK"})
        => result[r].kind = "Expired"

\* C7 (amended): a token whose exp is in the past is never answered with
\* claims, whether or not its signature is valid; among the tokens that reach
\* jwt.decode the rejection is the expiry one exactly when the signature
\* verifies, because the signature is checked first.
C7_ExpiredNeverAccepted ==
    \A r \in Reqs :
        (Done(r) /\ token[r].wellformed /\ token[r].exp < result[r].at)
        => /\ result[r].raised # "none"
           /\ result[r].payload = NoClaims
           /\ result[r].kind \in DecodeKinds =>
                (result[r].kind = "Expired" <=> SignedWithCachedKey(token[r]))

C7_Witness ==
    \E r \in Reqs :
        /\ Done(r)
        /\ token[r].exp < result[r].at
        /\ SignedWithCachedKey(token[r])
        /\ result[r].kind = "Expired"
        /\ result[r].status = 401

----------------------------------------------------------------------------
(* Claims about routing and forwarding *)

\* Route i's prefix is a prefix of the path.
PrefixOf(i, path) ==
    /\ Len(ROUTES[i].prefix) <= Len(path)
    /\ \A k \in 1..Len(ROUTES[i].prefix) : path[k] = ROUTES[i].prefix[k]

Matching(path) == {i \in 1..Len(ROUTES) : PrefixOf(i, path)}

\* C8 (as claimed): longest-prefix routing. Whenever some route prefix is a
\* prefix of the request path, the backend resolved for the request is the
\* backend of the longest such prefix, whatever the order of the table.
C8_LongestPrefixWins ==
    (rpc # "idle" /\ Matching(request.path) # {}) =>
        \E i \in Matching(request.path) :
            /\ \A j \in Matching(request.path) :
                   Len(ROUTES[j].prefix) <= Len(ROUTES[i].prefix)
            /\ backend_url = ROUTES[i].backend

\* C9: unmatched route. get_backend_url returns None exactly when no route
\* prefix is a prefix of the path, and such a request is answered 404 with no
\* outbound request built and no backend call issued.
C9_NotFoundIffNoPrefix ==
    rpc # "idle" =>
        /\ backend_url = None <=> Matching(request.path) = {}
        /\ backend_url = None =>
             /\ rpc = "done"
             /\ response.status_code = 404
             /\ response.class = "JSONResponse"
             /\ outbound = NoOutbound
             /\ backend_calls = 0

C9_Witness ==
    /\ rpc = "done"
    /\ Len(ROUTES) > 0
    /\ Matching(request.path) = {}
    /\ backend_url = None
    /\ response.status_code = 404
    /\ backend_calls = 0

\* C10 (as claimed): hop-by-hop headers are never relayed. The response that
\* forward_request builds from a backend response carries no connection or
\* transfer-encoding header.
C10_NoHopByHopRelayed ==
    (rpc = "done" /\ response.class = "Response") =>
        DOMAIN response.headers \cap HopByHop = {}

\* C11: faithful relay. The response forward_request gives for a backend
\* response has the backend's status code, the backend's body bytes and
\* every backend header that is not hop-by-hop, with its value.
C11_FaithfulRelay ==
    (rpc = "done" /\ backend_result.exc = "none") =>
        /\ response.class = "Response"
        /\ response.status_code = backend_result.status_code
        /\ response.content = backend_result.content
        /\ \A h \in DOMAIN backend_result.headers \ {"connection", "transfer-encoding"} :
               /\ h \in DOMAIN response.headers
               /\ response.headers[h] = backend_result.headers[h]

C11_Witness ==
    /\ rpc = "done"
    /\ backend_result.exc = "none"
    /\ backend_result.status_code = 200
    /\ "x-trace" \in DOMAIN backend_result.headers
    /\ "x-trace" \in DOMAIN response.headers
    /\ response.headers["x-trace"] = "abc"
    /\ response.status_code = 200

\* C12: header allow-list. The outbound request carries only the headers
\* authorization, content-type and accept, exactly those of them the inbound
\* request has, each with the inbound value; no other inbound header is sent.
C12_HeaderAllowList ==
    rpc \in {"forwarding", "done"} /\ backend_url # None =>
        /\ DOMAIN outbound.headers =
               DOMAIN request.headers \cap {"authorization", "content-type", "accept"}
        /\ \A h \in DOMAIN outbound.headers : outbound.headers[h] = request.headers[h]

C12_Witness ==
    /\ rpc = "forwarding"
    /\ "cookie" \in DOMAIN request.headers
    /\ "authorization" \in DOMAIN request.headers
    /\ "cookie" \notin DOMAIN outbound.headers
    /\ "authorization" \in DOMAIN outbound.headers
    /\ outbound.headers["authorization"] = "Bearer t"

\* C13 (as claimed): transport failure mapping. A connection failure or a
\* timeout of the outbound call, while connecting or while waiting for the
\* response, is answered 503 or 504; any other failure is answered 500.
C13_TransportFailureMapping ==
    (rpc = "done" /\ backend_result.exc \in TransportErrors) =>
        IF backend_result.exc \in {"ConnectError", "ConnectTimeout", "ReadTimeout"}
        THEN response.status_code \in {503, 504}
        ELSE response.status_code = 500

\* C14 (as claimed): no exception text reaches the caller. The body of a
\* gateway-made error response holds a fixed message and no text of the
\* exception that was raised.
C14_NoExceptionText ==
    (rpc = "done" /\ response.class = "JSONResponse") =>
        \A i \in 1..Len(response.content) : response.content[i] \notin TransportErrors

\* C15: fixed-window limit of GET / (5 calls per 60 seconds). For one key the
\* first 5 calls of a window are accepted and every later call of that window
\* is rejected with 429; a window lasts 60 seconds from the call that opened
\* it, so the first call after that boundary opens a new window and is
\* accepted.
C15_FixedWindow ==
    \A r \in Reqs :
        (endpoint[r] = ROOT /\ stage[r] \in {"handler", "sent"}) =>
            /\ answer[r].callno >= 1
            /\ answer[r].callno <= 5 => answer[r].status # 429
            /\ answer[r].callno > 5 => answer[r].status = 429
            /\ answer[r].opened <= answer[r].at
            /\ answer[r].at < answer[r].opened + 60

C15_Witness ==
    \E r1 \in Reqs : \E r2 \in Reqs :
        /\ endpoint[r1] = ROOT /\ stage[r1] = "sent"
        /\ answer[r1].status = 429 /\ answer[r1].callno = 6
        /\ endpoint[r2] = ROOT /\ stage[r2] = "sent" /\ caller[r2] = caller[r1]
        /\ answer[r2].status = 200 /\ answer[r2].callno = 1
        /\ answer[r2].at >= answer[r1].opened + 60

\* C16: atomic rate-limit counting. However concurrent requests of one key
\* interleave, the key's counter equals the number of calls accepted in its
\* window (no increment is lost) and that number never exceeds the limit.
C16_AtomicCounting ==
    \A k \in LimiterKeys :
        /\ redis[k].count = accepted[k]
        /\ accepted[k] <= times(k[2])

C16_Witness ==
    \E r1 \in Reqs : \E r2 \in Reqs :
        /\ r1 # r2
        /\ endpoint[r1] = ROOT /\ endpoint[r2] = ROOT /\ caller[r1] = caller[r2]
        /\ stage[r1] = "handler" /\ answer[r1].callno = times(ROOT)
        /\ stage[r2] = "sent" /\ answer[r2].status = 429
        /\ answer[r2].callno = times(ROOT) + 1
        /\ answer[r2].opened = answer[r1].opened
        /\ accepted[<<caller[r1], ROOT>>] = times(ROOT)

\* C17 (as claimed): pipeline stage order. For POST /api/payments/create the
\* rate-limit check is performed before token validation: validate_token runs
\* only for a request the limiter has counted, and a request answered 429 has
\* had no token validated and no JWKS fetch made.
C17_RateLimitBeforeValidation ==
    \A r \in Reqs :
        endpoint[r] = PAYMENTS =>
            /\ pc[r] # "idle" => answer[r].callno >= 1
            /\ answer[r].status = 429 => pc[r] = "idle" /\ fetched[r] = 0

\* C17 (amended): for POST /api/payments/create token validation is performed
\* before the rate-limit check. The limiter is reached only by a request whose
\* token validate_token accepted, so a request answered 429 has had its token
\* validated; a request whose token is refused is answered with
\* validate_token's error and is not counted by the limiter.
C17_ValidationBeforeRateLimit ==
    \A r \in Reqs :
        endpoint[r] = PAYMENTS =>
            /\ (stage[r] = "limit" \/ answer[r].callno >= 1) =>
                   Done(r) /\ result[r].raised = "none"
            /\ (Done(r) /\ result[r].raised # "none" /\ stage[r] = "sent") =>
                   answer[r].callno = 0 /\ answer[r].status = result[r].status

C17_Witness ==
    \E r \in Reqs :
        /\ endpoint[r] = PAYMENTS /\ stage[r] = "sent"
        /\ answer[r].status = 429 /\ answer[r].callno = times(PAYMENTS) + 1
        /\ Done(r) /\ result[r].raised = "none"

\* C18 (as claimed): protected endpoints require a valid token. /api/v1/me,
\* /secure and /api/payments/create answer with their success payload only a
\* request whose bearer token validate_token has accepted.
C18_ProtectedNeedsValidToken ==
    \A r \in Reqs :
        (endpoint[r] \in {ME, SECURE, PAYMENTS} /\ stage[r] = "sent"
            /\ answer[r].status = 200) =>
            Done(r) /\ result[r].raised = "none"

\* C19 (as claimed): a key-fetch failure is a service fault, not a token
\* fault. A validation whose JWKS fetch failed ends 500 or 503, never 401; a
\* kid that is absent from the fetched key set ends that request with 401.
C19_FetchFailureVersusUnknownKey ==
    \A r \in Reqs :
        Done(r) =>
            /\ result[r].kind = "KeyFetchFailed" => result[r].status \in {500, 503}
            /\ result[r].kind = "UnknownKeyId" => result[r].status = 401

\* C20: whole-snapshot key set. The cache is empty or equal to one complete
\* JWKS document; it changes only when a fetch succeeds, and then to the whole
\* document fetched; a failed fetch leaves it as it was.
C20_WholeSnapshot ==
    /\ [](cached_keys = NoKeys \/ cached_keys \in Snapshots)
    /\ [][cached_keys' # cached_keys =>
            /\ cached_keys' = jwks
            /\ \E r \in Reqs : /\ pc[r] = "fetching" /\ pc'[r] = "done"
                               /\ result'[r].kind # "KeyFetchFailed"]_vars

C20_Witness ==
    /\ cached_keys \in Snapshots
    /\ cached_keys # jwks
    /\ \E r \in Reqs : Done(r) /\ result[r].kind = "KeyFetchFailed"
    /\ \E r \in Reqs : Done(r) /\ fetched[r] = 1 /\ result[r].kind # "KeyFetchFailed"

----------------------------------------------------------------------------
(* Claims about the pipeline as a whole *)

\* A step in which the limiter counts a request, or a counter changes, is the
\* one limiter call of a request that had not been counted before.
CountedOnce ==
    /\ \A r \in Reqs :
          answer'[r].callno # answer[r].callno =>
              \/ answer'[r] = NoAnswer /\ redis' = redis
              \/ stage[r] = "limit" /\ answer[r].callno = 0
    /\ redis' # redis =>
          \E r \in Reqs : /\ stage[r] = "limit" /\ answer[r].callno = 0
                           /\ answer'[r].callno >= 1

\* C21: single attempt per stage. A request issues at most one JWKS fetch, has
\* the limiter count it at most once and makes at most one backend call; when a
\* stage fails the request is answered with that stage's error and no later
\* stage runs: no limiter call and no payment after a refused token, no
\* payment after a 429, no backend call for an unknown route, and no second
\* call after a transport failure.
C21_SingleAttempt ==
    /\ [](\A r \in Reqs :
            /\ fetched[r] <= 1
            /\ (endpoint[r] = PAYMENTS /\ Done(r) /\ result[r].raised # "none") =>
                   /\ answer[r].callno = 0
                   /\ payments = 0
                   /\ stage[r] = "sent" => answer[r].status = result[r].status
            /\ answer[r].status = 429 => payments = 0)
    /\ [](payments <= 1 /\ backend_calls <= 1)
    /\ []((rpc = "done" /\ backend_url = None) =>
              backend_calls = 0 /\ response.status_code = 404)
    /\ []((rpc = "done" /\ backend_result.exc \in TransportErrors) =>
              backend_calls = 1 /\ response.status_code \in {500, 503})
    /\ [][CountedOnce]_vars

C21_Witness ==
    /\ Done(1) /\ endpoint[1] = PAYMENTS /\ stage[1] = "sent"
    /\ fetched[1] = 1 /\ result[1].kind = "KeyFetchFailed"
    /\ answer[1].status = 500 /\ answer[1].callno = 0 /\ payments = 0
    /\ rpc = "done" /\ backend_result.exc = "ReadTimeout" /\ backend_calls = 1

\* C22: payment gating. POST /api/payments/create calls create_payment only
\* for a request whose token validate_token accepted and which the limiter
\* accepted as one of the 20 calls of its 60 second window; a request answered
\* 401 or 429 has created no payment intent.
C22_PaymentGating ==
    /\ payments > 0 =>
           \E r \in Reqs :
               /\ endpoint[r] = PAYMENTS /\ stage[r] = "sent"
               /\ Done(r) /\ result[r].raised = "none"
               /\ answer[r].callno \in 1..20
               /\ answer[r].at < answer[r].opened + 60
               /\ answer[r].status \notin {401, 429}
    /\ \A r \in Reqs :
           (endpoint[r] = PAYMENTS /\ stage[r] = "sent"
               /\ answer[r].status \in {401, 429}) => payments = 0

C22_Witness ==
    \E r \in Reqs :
        /\ endpoint[r] = PAYMENTS /\ stage[r] = "sent" /\ payments = 1
        /\ answer[r].status = 200 /\ answer[r].callno = 20
        /\ fetched[r] = 0 /\ result[r].raised = "none"

\* C23: health is never rate limited. GET /health can be served in every
\* state in which a task is free, also when the caller has used up its rate
\* budget; it is answered 200, and serving it changes no limiter counter and
\* not the key cache.
C23_HealthNeverLimited ==
    /\ [](\A r \in Reqs :
            /\ stage[r] = "idle" => ENABLED get_health(r)
            /\ endpoint[r] = HEALTH =>
                   /\ stage[r] = "sent"
                   /\ answer[r].status = 200 /\ answer[r].callno = 0)
    /\ [][\A r \in Reqs :
            (endpoint'[r] = HEALTH /\ endpoint[r] # HEALTH) =>
                /\ answer'[r].status = 200
                /\ redis' = redis /\ calls' = calls /\ accepted' = accepted
                /\ opened' = opened
                /\ cached_keys' = cached_keys]_vars

C23_Witness ==
    \E r \in Reqs : \E q \in Reqs : \E c \in Clients :
        /\ endpoint[r] = HEALTH /\ stage[r] = "sent" /\ answer[r].status = 200
        /\ endpoint[q] = ROOT /\ caller[q] = c /\ stage[q] = "sent"
        /\ answer[q].status = 429
        /\ current_count(redis[<<c, ROOT>>], redis_time) = times(ROOT)

----------------------------------------------------------------------------
(* Further claims about forward_request *)

\* The ends of a path: what is left after removing some beginning of it.
Suffixes(path) == { SubSeq(path, i, Len(path)) : i \in 1..(Len(path) + 1) }

\* C24: prefix stripping. For a request whose path starts with the matched
\* route prefix the outbound URL is the backend's base address, then the path
\* without that prefix ("/" when nothing is left), then "?" and the inbound
\* query string when there is one.
C24_PrefixStripping ==
    (rpc \in {"forwarding", "done"} /\ backend_url # None) =>
        \E i \in 1..Len(ROUTES) : \E rest \in Suffixes(request.path) :
            /\ ROUTES[i].backend = backend_url
            /\ ROUTES[i].prefix \o rest = request.path
            /\ outbound.url =
                   <<backend_url>>
                   \o (IF rest = <<>> THEN <<"/">> ELSE rest)
                   \o (IF request.query = "" THEN <<>> ELSE <<"?", request.query>>)

C24_Witness ==
    /\ rpc = "forwarding"
    /\ request.path = <<"/users">> /\ request.query = "a=1"
    /\ outbound.url = <<USER_SERVICE_URL, "/", "?", "a=1">>

\* C25: body forwarding by method. The outbound request carries the inbound
\* body exactly when the method is POST, PUT or PATCH; for every other method
\* it carries no body, whatever the inbound request held.
C25_BodyByMethod ==
    (rpc \in {"forwarding", "done"} /\ backend_url # None) =>
        /\ outbound.method = request.method
        /\ request.method \in {"POST", "PUT", "PATCH"} => outbound.content = request.body
        /\ request.method \notin {"POST", "PUT", "PATCH"} => outbound.content = <<>>

C25_Witness ==
    /\ rpc = "forwarding"
    /\ request.method = "DELETE" /\ request.body = <<"data">>
    /\ outbound.content = <<>>

\* C30: forward_request always answers. Whatever exception the outbound call
\* raises, forward_request returns a response object with status 503 or 500;
\* no exception reaches its caller.
C30_AlwaysAnswers ==
    (rpc = "done" /\ backend_result.exc \in TransportErrors) =>
        /\ response.class = "JSONResponse"
        /\ response.status_code \in {500, 503}

C30_Witness ==
    /\ rpc = "done" /\ backend_result.exc = "RemoteProtocolError"
    /\ response.class = "JSONResponse" /\ response.status_code = 500

----------------------------------------------------------------------------
(* Further claims about token validation and the limiter's windows *)

\* The claim checks a token fails at time t.
FailedChecks(t, clock) ==
    (IF t.exp < clock THEN {"Expired"} ELSE {})
    \cup (IF t.aud # AUTH0_AUDIENCE THEN {"AudienceMismatch"} ELSE {})
    \cup (IF t.iss # AUTH0_ISSUER THEN {"IssuerMismatch"} ELSE {})

\* C26: claim check order. A validation of a token whose signature the cached
\* key verifies ends with one error kind, that of the first check the token
\* fails in the order expiry, audience, issuer, and accepts the token when it
\* fails none.
C26_FirstFailingCheck ==
    \A r \in Reqs :
        (Done(r) /\ SignedWithCachedKey(token[r])) =>
            LET failed == FailedChecks(token[r], result[r].at) IN
            /\ "Expired" \in failed => result[r].kind = "Expired"
            /\ (failed # {} /\ "Expired" \notin failed /\ "AudienceMismatch" \in failed) =>
                   result[r].kind = "AudienceMismatch"
            /\ failed = {"IssuerMismatch"} => result[r].kind = "IssuerMismatch"
            /\ failed = {} <=> result[r].raised = "none"
            /\ failed # {} => result[r].status = 401

C26_Witness ==
    \E r \in Reqs :
        /\ Done(r) /\ SignedWithCachedKey(token[r])
        /\ FailedChecks(token[r], result[r].at) =
               {"Expired", "AudienceMismatch", "IssuerMismatch"}
        /\ result[r].kind = "Expired"

\* C27 (as claimed): period-aligned windows. A key's window opens at a
\* multiple of the period on the clock, not at the key's first request, and
\* no call is counted in a window that began before the last such boundary.
C27_PeriodAligned ==
    /\ \A k \in LimiterKeys : calls[k] > 0 => opened[k] % seconds(k[2]) = 0
    /\ \A r \in Reqs :
           answer[r].callno >= 1 =>
               answer[r].at \div seconds(endpoint[r])
                   = answer[r].opened \div seconds(endpoint[r])

\* A validate_token call by task r begins in this step.
Called(r) == pc[r] = "idle" /\ pc'[r] # "idle"

\* C28: cached reads do no I/O. A validate_token call whose kid is in the
\* cached key set ends in the step that began it: it issues no JWKS fetch and
\* does not wait for a fetch other requests have in flight.
C28_CachedReadsDoNoIO ==
    [][\A r \in Reqs :
         (Called(r) /\ cached_keys # NoKeys /\ token'[r].kid \in DOMAIN cached_keys) =>
             /\ pc'[r] = "done"
             /\ fetched'[r] = 0
             /\ result'[r] = after_keys(token'[r], cached_keys, now)]_vars

C28_Witness ==
    \E r \in Reqs : \E q \in Reqs :
        /\ Done(r) /\ fetched[r] = 0 /\ result[r].raised = "none"
        /\ token[r].kid \in DOMAIN cached_keys
        /\ pc[q] = "fetching"

\* C29: a failed first fetch does not poison the cache. A fetch that fails
\* leaves the cache as it was, so an empty cache stays empty; a validation that
\* finds the cache empty issues a fetch; and a fetch that is answered fills the
\* cache, after which a token signed with a published key is accepted.
C29_FailedFetchNotCached ==
    [][\A r \in Reqs :
         /\ (pc[r] = "fetching" /\ pc'[r] = "done"
               /\ result'[r].kind = "KeyFetchFailed") => cached_keys' = cached_keys
         /\ (Called(r) /\ cached_keys = NoKeys /\ before_keys(token'[r], now) = NoResult) =>
               pc'[r] = "fetching" /\ fetched'[r] = 1
         /\ (pc[r] = "fetching" /\ pc'[r] = "done"
               /\ result'[r].kind # "KeyFetchFailed") =>
               /\ cached_keys' = jwks
               /\ (token[r].kid \in DOMAIN jwks /\ token[r].sig = jwks[token[r].kid]) =>
                      result'[r].raised = "none"]_vars

C29_Witness ==
    \E r \in Reqs : \E q \in Reqs :
        /\ Done(r) /\ fetched[r] = 1 /\ peers[r] = {}
        /\ result[r].kind = "KeyFetchFailed"
        /\ Done(q) /\ fetched[q] = 1 /\ peers[q] = {}
        /\ result[q].raised = "none"

====
